---------------------------- MODULE Spec2Model ----------------------------
(***************************************************************************)
(* Model of the menu repository's two browser front ends:                  *)
(*   - the manager view (form capture, save, delete confirmation, list     *)
(*     fetch, search/category filter, weight label extraction), and        *)
(*   - the public view (nutritional highlight badge).                      *)
(* JavaScript strings are sequences of one-character strings.              *)
(***************************************************************************)
EXTENDS Integers, Sequences, FiniteSets, TLC

\* F(e), with e evaluated once
With(e, F(_)) == CHOOSE r \in {F(x) : x \in {e}} : TRUE

(***************************************************************************)
(* JavaScript strings                                                      *)
(***************************************************************************)
UpperToLower ==
    [A |-> "a", B |-> "b", C |-> "c", D |-> "d", E |-> "e", F |-> "f", G |-> "g",
     H |-> "h", I |-> "i", J |-> "j", K |-> "k", L |-> "l", M |-> "m", N |-> "n",
     O |-> "o", P |-> "p", Q |-> "q", R |-> "r", S |-> "s", T |-> "t", U |-> "u",
     V |-> "v", W |-> "w", X |-> "x", Y |-> "y", Z |-> "z"]

Digit == {"0", "1", "2", "3", "4", "5", "6", "7", "8", "9"}

WhiteSpace == {" ", "\t", "\n"}

DigitValue == [d \in Digit |->
    CASE d = "0" -> 0 [] d = "1" -> 1 [] d = "2" -> 2 [] d = "3" -> 3 [] d = "4" -> 4
      [] d = "5" -> 5 [] d = "6" -> 6 [] d = "7" -> 7 [] d = "8" -> 8 [] d = "9" -> 9]

\* String.prototype.toLowerCase, one character
LowerChar(c) == IF c \in DOMAIN UpperToLower THEN UpperToLower[c] ELSE c

\* String.prototype.toLowerCase
toLowerCase(s) == [i \in 1..Len(s) |-> LowerChar(s[i])]

\* String.prototype.trim
trim(s) ==
    With({i \in 1..Len(s) : s[i] \notin WhiteSpace}, LAMBDA keep :
        IF keep = {} THEN <<>>
        ELSE SubSeq(s, CHOOSE i \in keep : \A j \in keep : i <= j,
                       CHOOSE i \in keep : \A j \in keep : j <= i))

\* String.prototype.includes
includes(s, t) ==
    \E i \in 1..(Len(s) - Len(t) + 1) : SubSeq(s, i, i + Len(t) - 1) = t

(***************************************************************************)
(* JavaScript values: a string, null, undefined (absent property), boolean *)
(***************************************************************************)
Str(s) == [t |-> "string", s |-> s, b |-> FALSE]
Null == [t |-> "null", s |-> <<>>, b |-> FALSE]
Undefined == [t |-> "undefined", s |-> <<>>, b |-> FALSE]
Bool(b) == [t |-> "boolean", s |-> <<>>, b |-> b]

\* ToBoolean: the truthiness test of `!value`, `data.id ? :`, `a || b`
Truthy(v) ==
    CASE v.t = "string" -> v.s # <<>>
      [] v.t = "boolean" -> v.b
      [] OTHER -> FALSE


(***************************************************************************)
(* Bounds of the model                                                     *)
(***************************************************************************)
\* requests outstanding at once
MaxInflight == 2
\* delete confirmations pending on the modal at once
MaxPendingDeletes == 2

(***************************************************************************)
(* Manager view: state                                                     *)
(***************************************************************************)
VARIABLES
    allItems,          \* let allItems = []
    searchInput,       \* searchInput.value
    categoryFilter,    \* categoryFilter.value ("" when no category is selected)
    contentArea,       \* what #contentArea shows: [kind, items]
    createButtonShown, \* createButton.style.display # 'none'
    form,              \* #myForm: field name -> [kind, type, value, checked]
    popoverOpen,       \* #formPopover is shown
    formHeading,       \* text of the popover's h2
    inflight,          \* requests issued and not yet settled, in order of issue
    confirmListeners,  \* click listeners registered on #confirmDelete
    cancelListeners,   \* click listeners registered on #cancelDelete
    modalShown,        \* #deleteModal carries the class 'show'
    alertDialog,         \* text of the alert() dialog that is open, "" when none
    toast              \* [text, show] of #toast

managerVars ==
    <<allItems, searchInput, categoryFilter, contentArea, createButtonShown,
      form, popoverOpen, formHeading, inflight, confirmListeners,
      cancelListeners, modalShown, alertDialog, toast>>

(***************************************************************************)
(* Public view: state                                                      *)
(***************************************************************************)
VARIABLES
    menuCategories,    \* window.menuCategories: [category, items] in insertion order
    filterButtons,     \* the .filter-btn buttons in document order: [text, category, active]
    resultsContainer,  \* the sections of #results-container, in order
    menuItemsData,     \* window.menuItemsData: [popoverId, item] entries
    invokedFilter      \* the last call into filter.js: [fn, category]

publicVars ==
    <<menuCategories, filterButtons, resultsContainer, menuItemsData, invokedFilter>>

vars == <<managerVars, publicVars>>

\* the public page is not the one that is open
NoListings ==
    /\ menuCategories = <<>>
    /\ filterButtons = <<>>
    /\ resultsContainer = <<>>
    /\ menuItemsData = <<>>
    /\ invokedFilter = [fn |-> "", category |-> <<>>]

(***************************************************************************)
(* Data exchanged with the external API                                    *)
(***************************************************************************)
\* A MenuItem: id and ITEM are JavaScript strings (ITEM may be null),
\* CATEGORY is a category key ("" stands for an absent category).
Item(id, name, category) == [id |-> id, ITEM |-> name, CATEGORY |-> category]

Fries == Item(<<"1">>, Str(<<"F", "r", "i", "e", "s">>), "SNACKSIDE")
McFries == Item(<<"2">>, Str(<<"M", "c", "F", "R", "I", "E", "S">>), "BEVERAGE")
BigMac == Item(<<"3">>, Str(<<"B", "i", "g", " ", "M", "a", "c">>), "SNACKSIDE")
NoName == Item(<<"4">>, Null, "SNACKSIDE")

\* the arrays GET /data may answer with
ItemLists == {<<>>, <<Fries>>, <<McFries, Fries>>}

\* what the user may type into the search box / pick in the category dropdown
SearchTerms == {<<>>, <<" ", "F", "R", "i", "e", "s">>}
CategoryChoices == {"", "SNACKSIDE"}

\* the same, wider, for the filter on its own
FilterItemLists ==
    {<<>>, <<Fries>>, <<BigMac>>, <<McFries, Fries>>, <<BigMac, McFries, NoName, Fries>>,
     <<NoName, BigMac>>}
FilterSearchTerms ==
    {<<>>, <<"f", "r", "i", "e", "s">>, <<" ", "F", "R", "i", "e", "s", " ">>,
     <<"m", "a", "c">>, <<"\t", " ">>, <<"M", "c">>}
FilterCategoryChoices == {"", "SNACKSIDE", "BEVERAGE", "SALAD"}

\* names with a weight or volume in them
OzGramName(base, n, m) ==
    base \o (IF base = <<>> THEN <<>> ELSE <<" ">>) \o n \o <<" ", "o", "z", " ", "(">>
         \o m \o <<" ", "g", ")">>

Bases == {<<>>, <<"M", "a", "c">>, <<"P", "i", "e", " ", "(", "2", ")">>}
OunceValues == {<<"8", ".", "9">>, <<"7">>}
GramValues == {<<"2", "5", "1">>}

WeightNames ==
    {OzGramName(base, n, m) : base \in Bases, n \in OunceValues, m \in GramValues}
    \cup {<<"C", "o", "l", "a", " ", "1", "2", " ", "f", "l", " ", "o", "z", " ",
             "c", "u", "p", " ", "(", "3", "1", "0", " ", "g", ")">>,
           <<"T", "e", "a", " ", "(", "1", "2", " ", "f", "l", " ", "o", "z", " ",
             "c", "u", "p", ")">>,
           <<"C", "o", "f", "f", "e", "e", " ", "1", "2", " ", "f", "l", " ", "o", "z",
             " ", "(", "3", "4", "0", " ", "g", ")">>,
           <<"1", " ", "c", "o", "o", "k", "i", "e", " ", "(", "3", "3", " ", "g", ")">>,
           <<"N", "u", "t", "s", " ", "(", "4", "0", " ", "g", ")">>,
           <<"F", "r", "i", "e", "s">>}

RenderCategories == {"", "BEVERAGE", "CONDIMENT", "DESSERTSHAKE", "SNACKSIDE", "MCCAFE"}

\* the arrays GET /data answers with when the cards are looked at
RenderItemLists ==
    {<<Item(<<"1">>, Str(name), category)>> :
        name \in WeightNames, category \in RenderCategories}
    \cup {<<Item(<<"1">>, Str(OzGramName(<<>>, <<"8", ".", "9">>, <<"2", "5", "1">>)), "BEVERAGE"),
            Item(<<"2">>, Str(OzGramName(<<>>, <<"8", ".", "9">>, <<"2", "5", "1">>)), "SNACKSIDE")>>}

\* how the server may settle a request
Outcomes == {"ok", "notok", "notokBadBody", "reject"}

DataPath == <<"/", "d", "a", "t", "a">>

\* a fetch() call: who awaits it, and its method, URL and JSON body
Request(kind, method, endpoint, body) ==
    [kind |-> kind, method |-> method, endpoint |-> endpoint, body |-> body]

\* a request sent without a body
NoBody == [none |-> TRUE]

Content(kind, items) == [kind |-> kind, items |-> items]

AddMenuItemHeading == "Add Menu Item"
EditMenuItemHeading == "Edit Menu Item"

(***************************************************************************)
(* getFormData                                                             *)
(***************************************************************************)
Field(kind, type, value, checked) ==
    [kind |-> kind, type |-> type, value |-> value, checked |-> checked]

\* new FormData(myForm) / Object.fromEntries: every field as a string; an
\* unchecked checkbox contributes no entry
formDataEntry(el) ==
    IF el.kind = "input" /\ el.type = "checkbox" /\ ~el.checked
    THEN Undefined
    ELSE Str(el.value)

\* const isEmpty = !value || value.trim() === ''
isEmpty(value) == ~Truthy(value) \/ trim(value.s) = <<>>

\* new Date(value).toISOString() of a date input's yyyy-mm-dd value
toISOString(s) ==
    s \o <<"T", "0", "0", ":", "0", "0", ":", "0", "0", ".", "0", "0", "0", "Z">>

\* mutant: hidden inputs are coerced like text inputs
inputValueCoercesHidden(el, value) ==
    IF el.type = "checkbox" THEN Bool(el.checked)
    ELSE IF el.type = "number" \/ el.type = "range"
         THEN (IF isEmpty(value) THEN Null ELSE value)
    ELSE IF el.type = "date"
         THEN (IF isEmpty(value) THEN Null ELSE Str(toISOString(value.s)))
    ELSE IF isEmpty(value) THEN Null
    ELSE value

\* the body of myForm.querySelectorAll('input').forEach
inputValue(el, value) ==
    IF el.type = "hidden" THEN value
    ELSE IF el.type = "checkbox" THEN Bool(el.checked)
    ELSE IF el.type = "number" \/ el.type = "range"
         THEN (IF isEmpty(value) THEN Null ELSE value)
    ELSE IF el.type = "date"
         THEN (IF isEmpty(value) THEN Null ELSE Str(toISOString(value.s)))
    ELSE IF isEmpty(value) /\ el.type = "text" THEN Null
    ELSE value

\* the body of myForm.querySelectorAll('select').forEach
selectValue(el, value) ==
    IF ~Truthy(value) \/ trim(value.s) = <<>> THEN Null ELSE value

getFormData(f) ==
    [name \in DOMAIN f |->
        LET el == f[name]
            value == formDataEntry(el)
        IN  IF el.kind = "input" THEN inputValue(el, value)
            ELSE IF el.kind = "select" THEN selectValue(el, value)
            ELSE value]

\* data.id of the extracted record (undefined when the form has no id field)
DataId(data) == IF "id" \in DOMAIN data THEN data["id"] ELSE Undefined

(***************************************************************************)
(* saveItem                                                                *)
(***************************************************************************)
\* const endpoint = data.id ? `/data/${data.id}` : '/data'
saveEndpoint(data) ==
    IF Truthy(DataId(data)) THEN DataPath \o <<"/">> \o DataId(data).s ELSE DataPath

\* mutant: every save is a create
saveMethodAlwaysPost(data) == "POST"

\* const method = data.id ? "PUT" : "POST"
saveMethod(data) == IF Truthy(DataId(data)) THEN "PUT" ELSE "POST"

\* the request saveItem hands to fetch
saveRequest(data) == Request("save", saveMethod(data), saveEndpoint(data), data)

\* getData() issues GET /data
listRequest == Request("list", "GET", DataPath, NoBody)

\* handleConfirm's fetch(`/data/${id}`, { method: "DELETE" })
deleteRequest(id) == Request("delete", "DELETE", DataPath \o <<"/">> \o id, NoBody)

\* HTMLFormElement.reset(): every control goes back to its default value; a
\* hidden input's value IS its default value (value attribute), so it stays
formReset(f) ==
    [name \in DOMAIN f |->
        IF f[name].kind = "input" /\ f[name].type = "hidden" THEN f[name]
        ELSE [f[name] EXCEPT !.value = <<>>, !.checked = FALSE]]

\* the manager form as far as the view's handlers read it
ManagerForm ==
    [id |-> Field("input", "hidden", <<>>, FALSE),
     ITEM |-> Field("input", "text", <<>>, FALSE)]

\* element.value = data[field]: null is written as the empty string
ElementValue(v) == IF v.t = "string" THEN v.s ELSE <<>>

\* editItem's Object.keys(data).forEach over the item's fields
editItemForm(f, item) ==
    [name \in DOMAIN f |->
        IF name = "id" THEN [f[name] EXCEPT !.value = item.id]
        ELSE IF name = "ITEM" THEN [f[name] EXCEPT !.value = ElementValue(item.ITEM)]
        ELSE f[name]]

(***************************************************************************)
(* Regular expressions as renderItem uses them: a sequence of character    *)
(* classes, each with a greedy quantifier ("1", "?", "*" or "+"), or the   *)
(* end anchor "$", matched with backtracking at the leftmost position      *)
(***************************************************************************)
Re(cs, q) == [cs |-> cs, q |-> q]

\* a literal letter under the i flag
CI(c) == {c} \cup {u \in DOMAIN UpperToLower : UpperToLower[u] = c}

D(q) == Re(Digit, q)
S(q) == Re(WhiteSpace, q)
Lit(c) == Re(CI(c), "1")
Opt(c) == Re({c}, "?")
\* a literal character without the i flag
Ch(c) == Re({c}, "1")
\* $: the end of the text
End == Re({}, "$")

\* how many characters of s from pos on lie in cs
Run(cs, s, pos) ==
    CHOOSE n \in 0..(Len(s) + 1 - pos) :
        /\ \A i \in pos..(pos + n - 1) : s[i] \in cs
        /\ pos + n > Len(s) \/ s[pos + n] \notin cs

NoMatch == [ok |-> FALSE, ends |-> <<>>]

\* the fewest and the most characters item k can take at pos
Least(re, k, s, pos) ==
    IF re[k].q \in {"1", "+"} \/ (re[k].q = "$" /\ pos <= Len(s)) THEN 1 ELSE 0

Most(re, k, s, pos) ==
    With(Run(re[k].cs, s, pos), LAMBDA run :
        IF re[k].q \in {"1", "?"} THEN (IF run > 0 THEN 1 ELSE 0) ELSE run)

\* items k.. of re matched from pos on: the position after each item; item k
\* takes as many characters as it can for the rest to match (greedy, with
\* backtracking)
RECURSIVE MatchFrom(_, _, _, _)
MatchFrom(re, k, s, pos) ==
    IF k > Len(re) THEN [ok |-> TRUE, ends |-> <<>>]
    ELSE With({take \in {[n |-> n, rest |-> MatchFrom(re, k + 1, s, pos + n)] :
                            n \in Least(re, k, s, pos)..Most(re, k, s, pos)} :
                  take.rest.ok},
              LAMBDA takes :
                  IF takes = {} THEN NoMatch
                  ELSE With(CHOOSE take \in takes : \A other \in takes : other.n <= take.n,
                            LAMBDA take :
                                [ok |-> TRUE, ends |-> <<pos + take.n>> \o take.rest.ends]))

\* String.prototype.match without the g flag: the leftmost match
SearchFrom(re, s, start) ==
    With({at \in {[start |-> from, m |-> MatchFrom(re, 1, s, from)] :
                     from \in start..(Len(s) + 1)} : at.m.ok},
         LAMBDA found :
             IF found = {} THEN [found |-> FALSE, start |-> 0, ends |-> <<>>]
             ELSE With(CHOOSE at \in found : \A other \in found : at.start <= other.start,
                       LAMBDA at : [found |-> TRUE, start |-> at.start, ends |-> at.m.ends]))

match(s, re) == With(s, LAMBDA text : SearchFrom(re, text, 1))

\* the text items a..b of the pattern matched (a capture group)
Group(s, m, a, b) ==
    SubSeq(s, IF a = 1 THEN m.start ELSE m.ends[a - 1], m.ends[b] - 1)

\* s.replace(pattern, ''): the first match cut out
replaceFirst(s, m) ==
    SubSeq(s, 1, m.start - 1) \o SubSeq(s, m.ends[Len(m.ends)], Len(s))

(***************************************************************************)
(* renderItem: the weight parsing cascade                                  *)
(***************************************************************************)
\* (\d+\.?\d*)
Number == <<D("+"), Opt("."), D("*")>>

\* /(\d+\.?\d*)\s*fl\s*oz\s*cup\s*\(\d+\s*g\)/i
Pattern1 ==
    Number \o <<S("*"), Lit("f"), Lit("l"), S("*"), Lit("o"), Lit("z"), S("*"),
                Lit("c"), Lit("u"), Lit("p"), S("*"), Lit("("), D("+"), S("*"),
                Lit("g"), Lit(")")>>

\* /\((\d+\.?\d*)\s*fl\s*oz\s*cup\)/i
Pattern2 ==
    <<Lit("(")>> \o Number \o
    <<S("*"), Lit("f"), Lit("l"), S("*"), Lit("o"), Lit("z"), S("*"),
      Lit("c"), Lit("u"), Lit("p"), Lit(")")>>

\* /(\d+\.?\d*)\s*fl\s*oz/i
Pattern3 == Number \o <<S("*"), Lit("f"), Lit("l"), S("*"), Lit("o"), Lit("z")>>

\* /(\d+\.?\d*)\s*oz\s*\((\d+)\s*g\)/i
Pattern4 ==
    Number \o <<S("*"), Lit("o"), Lit("z"), S("*"), Lit("("), D("+"), S("*"),
                Lit("g"), Lit(")")>>

\* /\d+\s*cookie\s*\((\d+\.?\d*)\s*g\)/i
Pattern5 ==
    <<D("+"), S("*"), Lit("c"), Lit("o"), Lit("o"), Lit("k"), Lit("i"), Lit("e"),
      S("*"), Lit("(")>> \o Number \o <<S("*"), Lit("g"), Lit(")")>>

\* /\(?\s*(\d+\.?\d*)\s*g\s*\)?/i
Pattern6 ==
    <<Opt("("), S("*")>> \o Number \o <<S("*"), Lit("g"), S("*"), Opt(")")>>

FlOz == <<" ", "f", "l", " ", "o", "z">>
Oz == <<" ", "o", "z">>
Grams == <<" ", "g">>

UnnamedItem == <<"U", "n", "n", "a", "m", "e", "d", " ", "I", "t", "e", "m">>

\* what the cascade has so far: the name shown and the weight shown
Parsed(itemName, weightInfo) == [itemName |-> itemName, weightInfo |-> weightInfo]

\* one step of the cascade: if the pattern matches, cut the match out of the
\* name, trim it, and show capture a..b with its unit
applyPattern(p, re, a, b, unit) ==
    With(match(p.itemName, re), LAMBDA m :
        IF m.found
        THEN Parsed(trim(replaceFirst(p.itemName, m)), Group(p.itemName, m, a, b) \o unit)
        ELSE p)

\* a step taken only while no weight is found (`if (!weightInfo)`)
unlessFound(p, re, a, b, unit) ==
    IF p.weightInfo = <<>> THEN applyPattern(p, re, a, b, unit) ELSE p

\* mutant: only beverages show ounces
showsOuncesBeverageOnly(category) == category = "BEVERAGE"

\* category === 'DESSERTSHAKE' || category === 'CONDIMENT' || category === 'BEVERAGE'
showsOunces(category) == category \in {"DESSERTSHAKE", "CONDIMENT", "BEVERAGE"}

\* category !== 'DESSERTSHAKE' && category !== 'CONDIMENT' && category !== 'BEVERAGE'
gramsOnly(category) == category \notin {"DESSERTSHAKE", "CONDIMENT", "BEVERAGE"}

\* patterns 1 to 3: fluid ounces
flOzSteps(p0) ==
    With(applyPattern(p0, Pattern1, 1, 3, FlOz), LAMBDA p1 :
    With(unlessFound(p1, Pattern2, 2, 4, FlOz), LAMBDA p2 :
         unlessFound(p2, Pattern3, 1, 3, FlOz)))

\* pattern 4: ounces for beverages, grams for food
ozGramStep(p3, category) ==
    IF showsOunces(category)
    THEN unlessFound(p3, Pattern4, 1, 3, Oz)
    ELSE unlessFound(p3, Pattern4, 9, 9, Grams)

\* pattern 6: grams alone, not for beverages
gramStep(p5, category) ==
    IF gramsOnly(category) THEN unlessFound(p5, Pattern6, 3, 5, Grams) ELSE p5

\* the cascade on a name: each pattern is tried only while no weight is found
parseWeight(name, category) ==
    With(flOzSteps(Parsed(name, <<>>)), LAMBDA p3 :
    With(ozGramStep(p3, category), LAMBDA p4 :
    With(unlessFound(p4, Pattern5, 11, 13, Grams), LAMBDA p5 :
         gramStep(p5, category))))

\* renderItem: the card of an item (its name and weight as displayed)
renderItem(item) ==
    With(parseWeight(IF Truthy(item.ITEM) THEN item.ITEM.s ELSE UnnamedItem, item.CATEGORY),
         LAMBDA parsed :
             [item |-> item, itemName |-> parsed.itemName, weightInfo |-> parsed.weightInfo])

(***************************************************************************)
(* filterAndDisplayItems                                                   *)
(***************************************************************************)
\* mutant: the name is compared without being lower-cased
matchesSearchCaseSensitive(item, searchTerm) ==
    searchTerm = <<>>
    \/ (Truthy(item.ITEM) /\ includes(item.ITEM.s, searchTerm))

\* const matchesSearch = !searchTerm ||
\*     (item.ITEM && item.ITEM.toLowerCase().includes(searchTerm))
matchesSearch(item, searchTerm) ==
    searchTerm = <<>>
    \/ (Truthy(item.ITEM) /\ includes(toLowerCase(item.ITEM.s), searchTerm))

\* const matchesCategory = !selectedCategory || item.CATEGORY === selectedCategory
matchesCategory(item, selectedCategory) ==
    selectedCategory = "" \/ item.CATEGORY = selectedCategory

\* Array.prototype.filter
RECURSIVE FilterSeq(_, _, _)
FilterSeq(items, searchTerm, selectedCategory) ==
    IF items = <<>> THEN <<>>
    ELSE With(Tail(items), LAMBDA others :
             IF matchesSearch(Head(items), searchTerm)
                /\ matchesCategory(Head(items), selectedCategory)
             THEN <<Head(items)>> \o FilterSeq(others, searchTerm, selectedCategory)
             ELSE FilterSeq(others, searchTerm, selectedCategory))

\* every item the server may send
KnownItems ==
    UNION {{list[i] : i \in 1..Len(list)} :
              list \in ItemLists \cup FilterItemLists \cup RenderItemLists}

\* renderItem(item) of every known item (evaluated once)
Cards == [item \in KnownItems |-> renderItem(item)]

\* the new content of #contentArea: a message, or the cards of the items
filterAndDisplayItems(items, search, category) ==
    With(trim(toLowerCase(search)), LAMBDA searchTerm :
    With(FilterSeq(items, searchTerm, category), LAMBDA filteredItems :
        IF Len(filteredItems) = 0
        THEN Content("No items match your search.", <<>>)
        ELSE Content("cards", [i \in 1..Len(filteredItems) |-> Cards[filteredItems[i]]])))

(***************************************************************************)
(* Manager view: initial state (the script has run, getData() was called)  *)
(***************************************************************************)
Init ==
    /\ allItems = <<>>
    /\ searchInput = <<>>
    /\ categoryFilter = ""
    /\ contentArea = Content("", <<>>)
    /\ createButtonShown = TRUE
    /\ form = ManagerForm
    /\ popoverOpen = FALSE
    /\ formHeading = AddMenuItemHeading
    /\ inflight = <<listRequest>>
    /\ confirmListeners = <<>>
    /\ cancelListeners = <<>>
    /\ modalShown = FALSE
    /\ alertDialog = ""
    /\ toast = [text |-> "", show |-> FALSE]
    /\ NoListings

\* remove the i-th element of a sequence
RemoveAt(seq, i) == SubSeq(seq, 1, i - 1) \o SubSeq(seq, i + 1, Len(seq))

(***************************************************************************)
(* Manager view: the user's actions                                        *)
(***************************************************************************)
\* searchInput 'input' listener
TypeSearchFrom(terms) ==
    \E v \in terms :
        /\ alertDialog = ""
        /\ UNCHANGED publicVars
        /\ v # searchInput
        /\ searchInput' = v
        /\ contentArea' = filterAndDisplayItems(allItems, v, categoryFilter)
        /\ UNCHANGED <<allItems, categoryFilter, createButtonShown, form, popoverOpen,
                       formHeading, inflight, confirmListeners, cancelListeners,
                       modalShown, alertDialog, toast>>

TypeSearch == TypeSearchFrom(SearchTerms)

\* categoryFilter 'change' listener
ChangeCategoryFrom(choices) ==
    \E c \in choices :
        /\ alertDialog = ""
        /\ UNCHANGED publicVars
        /\ c # categoryFilter
        /\ categoryFilter' = c
        /\ contentArea' = filterAndDisplayItems(allItems, searchInput, c)
        /\ UNCHANGED <<allItems, searchInput, createButtonShown, form, popoverOpen,
                       formHeading, inflight, confirmListeners, cancelListeners,
                       modalShown, alertDialog, toast>>

ChangeCategory == ChangeCategoryFrom(CategoryChoices)

\* createButton click: myForm.reset() and its 'reset' listener; the button
\* is the popover's invoker, so the form popover opens
ClickCreate ==
    /\ alertDialog = ""
    /\ UNCHANGED publicVars
    /\ createButtonShown
    /\ form' = formReset(form)
    /\ formHeading' = AddMenuItemHeading
    /\ popoverOpen' = TRUE
    /\ UNCHANGED <<allItems, searchInput, categoryFilter, contentArea,
                   createButtonShown, inflight, confirmListeners, cancelListeners,
                   modalShown, alertDialog, toast>>

\* .edit-icon click on a rendered card: editItem(item)
EditItem ==
    \E i \in 1..Len(contentArea.items) :
        /\ alertDialog = ""
        /\ UNCHANGED publicVars
        /\ form' = editItemForm(form, contentArea.items[i].item)
        /\ formHeading' = EditMenuItemHeading
        /\ popoverOpen' = TRUE
        /\ UNCHANGED <<allItems, searchInput, categoryFilter, contentArea,
                       createButtonShown, inflight, confirmListeners, cancelListeners,
                       modalShown, alertDialog, toast>>

\* myForm 'submit' listener up to `await saveItem(data)`, saveItem up to
\* `await fetch(endpoint, options)`
Submit ==
    /\ alertDialog = ""
    /\ UNCHANGED publicVars
    /\ popoverOpen
    /\ Len(inflight) < MaxInflight
    /\ inflight' = Append(inflight, saveRequest(getFormData(form)))
    /\ UNCHANGED <<allItems, searchInput, categoryFilter, contentArea,
                   createButtonShown, form, popoverOpen, formHeading,
                   confirmListeners, cancelListeners, modalShown, alertDialog,
                   toast>>

\* button.cancel click
CancelForm ==
    /\ alertDialog = ""
    /\ UNCHANGED publicVars
    /\ popoverOpen
    /\ form' = formReset(form)
    /\ formHeading' = AddMenuItemHeading
    /\ popoverOpen' = FALSE
    /\ UNCHANGED <<allItems, searchInput, categoryFilter, contentArea,
                   createButtonShown, inflight, confirmListeners, cancelListeners,
                   modalShown, alertDialog, toast>>

(***************************************************************************)
(* deleteItem                                                              *)
(***************************************************************************)
\* a handleConfirm / handleCancel closure pair of one deleteItem(id) call
Listener(h, id) == [h |-> h, id |-> id]

Handles(listeners) == {listeners[i].h : i \in 1..Len(listeners)}

\* removeEventListener('click', handler)
removeEventListener(listeners, h) ==
    SelectSeq(listeners, LAMBDA l : l.h # h)

\* the part of the page the modal's handlers act on
ModalState(confirm, cancel, shown, requests) ==
    [confirm |-> confirm, cancel |-> cancel, shown |-> shown, requests |-> requests]

\* mutant: the request is sent without waiting for the confirmation
deleteItemUnconfirmed(st, id) ==
    ModalState(st.confirm, st.cancel, st.shown, Append(st.requests, deleteRequest(id)))

\* deleteItem(id): show the modal, register a fresh pair of handlers
deleteItem(st, id) ==
    LET h == CHOOSE n \in 1..(Len(st.confirm) + Len(st.cancel) + 1) :
                 n \notin Handles(st.confirm) \cup Handles(st.cancel)
    IN  ModalState(Append(st.confirm, Listener(h, id)),
                   Append(st.cancel, Listener(h, id)),
                   TRUE, st.requests)

\* handleConfirm up to `await fetch(endpoint, options)`
handleConfirm(st, l) ==
    ModalState(removeEventListener(st.confirm, l.h),
               removeEventListener(st.cancel, l.h),
               FALSE, Append(st.requests, deleteRequest(l.id)))

\* handleCancel
handleCancel(st, l) ==
    ModalState(removeEventListener(st.confirm, l.h),
               removeEventListener(st.cancel, l.h),
               FALSE, st.requests)

\* a click on #confirmDelete: the listeners registered when the event is
\* dispatched run in registration order, unless removed meanwhile
RECURSIVE dispatchConfirm(_, _)
dispatchConfirm(st, snapshot) ==
    IF snapshot = <<>> THEN st
    ELSE IF Head(snapshot).h \in Handles(st.confirm)
         THEN With(<<handleConfirm(st, Head(snapshot)), Tail(snapshot)>>,
                   LAMBDA next : dispatchConfirm(next[1], next[2]))
         ELSE With(Tail(snapshot), LAMBDA others : dispatchConfirm(st, others))

\* a click on #cancelDelete
RECURSIVE dispatchCancel(_, _)
dispatchCancel(st, snapshot) ==
    IF snapshot = <<>> THEN st
    ELSE IF Head(snapshot).h \in Handles(st.cancel)
         THEN With(<<handleCancel(st, Head(snapshot)), Tail(snapshot)>>,
                   LAMBDA next : dispatchCancel(next[1], next[2]))
         ELSE With(Tail(snapshot), LAMBDA others : dispatchCancel(st, others))

CurrentModal == ModalState(confirmListeners, cancelListeners, modalShown, inflight)

SetModal(st) ==
    \E new \in {st} :
        /\ confirmListeners' = new.confirm
        /\ cancelListeners' = new.cancel
        /\ modalShown' = new.shown
        /\ inflight' = new.requests

\* .delete-icon click on a rendered card: deleteItem(item.id)
DeleteItem ==
    \E i \in 1..Len(contentArea.items) :
        /\ alertDialog = ""
        /\ UNCHANGED publicVars
        /\ Len(confirmListeners) < MaxPendingDeletes
        /\ SetModal(deleteItem(CurrentModal, contentArea.items[i].item.id))
        /\ UNCHANGED <<allItems, searchInput, categoryFilter, contentArea,
                       createButtonShown, form, popoverOpen, formHeading,
                       alertDialog, toast>>

\* the user clicks the modal's Delete button
ClickConfirm ==
    /\ alertDialog = ""
    /\ UNCHANGED publicVars
    /\ confirmListeners # <<>>
    /\ Len(inflight) + Len(confirmListeners) <= MaxInflight
    /\ SetModal(dispatchConfirm(CurrentModal, confirmListeners))
    /\ UNCHANGED <<allItems, searchInput, categoryFilter, contentArea,
                   createButtonShown, form, popoverOpen, formHeading,
                   alertDialog, toast>>

\* the user clicks the modal's Cancel button
ClickCancel ==
    /\ alertDialog = ""
    /\ UNCHANGED publicVars
    /\ cancelListeners # <<>>
    /\ SetModal(dispatchCancel(CurrentModal, cancelListeners))
    /\ UNCHANGED <<allItems, searchInput, categoryFilter, contentArea,
                   createButtonShown, form, popoverOpen, formHeading,
                   alertDialog, toast>>

(***************************************************************************)
(* Manager view: continuations run when a request settles                  *)
(***************************************************************************)
\* showToast(message)
showToast(message) == [text |-> message, show |-> TRUE]

\* mutant: the list is refetched whatever the response
saveRefetchesAlways(outcome) == TRUE

\* saveItem reaches `getData()` only past `if (!response.ok) { ...; return }`
\* and outside the catch
saveRefetches(outcome) == outcome = "ok"

\* the alert saveItem raises, "" when none
saveAlert(outcome) ==
    IF outcome = "reject" THEN "An error occurred while saving"
    ELSE IF outcome # "ok" THEN "Failed to save: "
    ELSE ""

\* mutant: a failed delete asks for the list again
deleteRefetchesAlways(outcome) == TRUE

\* handleConfirm reaches `getData()` only inside `if (response.ok)`
deleteRefetches(outcome) == outcome = "ok"

\* the alert handleConfirm raises, "" when none; a non-JSON error body makes
\* response.json() reject, which the catch turns into the generic alert
deleteAlert(outcome) ==
    IF outcome = "reject" \/ outcome = "notokBadBody"
    THEN "An error occurred while deleting"
    ELSE IF outcome = "notok" THEN "Failed to delete item"
    ELSE ""

\* the requests outstanding once request i settled and its handler ran
Settled(i, refetch) ==
    IF refetch THEN Append(RemoveAt(inflight, i), listRequest)
    ELSE RemoveAt(inflight, i)

\* saveItem from `await fetch` on, then the submit listener's
\* myForm.reset() and formPopover.hidePopover(); alert() blocks the page,
\* so after an alert the rest runs when the dialog is dismissed
SaveResponseWith(i, outcome) ==
    /\ alertDialog = ""
    /\ UNCHANGED publicVars
    /\ inflight[i].kind = "save"
    /\ inflight' = Settled(i, saveRefetches(outcome))
    /\ toast' = IF saveRefetches(outcome)
                THEN showToast("Menu item saved successfully!") ELSE toast
    /\ alertDialog' = saveAlert(outcome)
    /\ IF saveAlert(outcome) = ""
       THEN /\ form' = formReset(form)
            /\ formHeading' = AddMenuItemHeading
            /\ popoverOpen' = FALSE
       ELSE UNCHANGED <<form, formHeading, popoverOpen>>
    /\ UNCHANGED <<allItems, searchInput, categoryFilter, contentArea,
                   createButtonShown, confirmListeners, cancelListeners,
                   modalShown>>

SaveResponse ==
    \E i \in 1..Len(inflight), outcome \in Outcomes : SaveResponseWith(i, outcome)

\* handleConfirm from `await fetch` on
DeleteResponseWith(i, outcome) ==
    /\ alertDialog = ""
    /\ UNCHANGED publicVars
    /\ inflight[i].kind = "delete"
    /\ inflight' = Settled(i, deleteRefetches(outcome))
    /\ alertDialog' = deleteAlert(outcome)
    /\ toast' = IF deleteRefetches(outcome)
                THEN showToast("Item deleted successfully") ELSE toast
    /\ UNCHANGED <<allItems, searchInput, categoryFilter, contentArea,
                   createButtonShown, form, popoverOpen, formHeading,
                   confirmListeners, cancelListeners, modalShown>>

DeleteResponse ==
    \E i \in 1..Len(inflight), outcome \in Outcomes : DeleteResponseWith(i, outcome)

\* what getData leaves behind for a settled GET /data
ListState(items, content, shown) ==
    [allItems |-> items, contentArea |-> content, createButtonShown |-> shown]

\* mutant: the first list that arrived is kept, later responses are dropped
getDataFirstWins(outcome, data, cur) ==
    IF cur.allItems # <<>> THEN cur
    ELSE ListState(data, filterAndDisplayItems(data, searchInput, categoryFilter),
                   cur.createButtonShown)

\* getData from `await fetch('/data')` on
getData(outcome, data, cur) ==
    IF outcome = "reject"
    THEN ListState(cur.allItems, Content("Error loading menu items.", <<>>),
                   cur.createButtonShown)
    ELSE IF outcome # "ok"
    THEN ListState(cur.allItems, Content("Could not connect to the database.", <<>>),
                   FALSE)
    ELSE IF Len(data) = 0
    THEN ListState(cur.allItems, Content("No data found in the database.", <<>>),
                   cur.createButtonShown)
    ELSE ListState(data, filterAndDisplayItems(data, searchInput, categoryFilter),
                   cur.createButtonShown)

ListResponseWith(i, outcome, data) ==
    /\ alertDialog = ""
    /\ UNCHANGED publicVars
    /\ inflight[i].kind = "list"
    /\ outcome # "ok" => data = <<>>
    /\ \E new \in {getData(outcome, data,
                            ListState(allItems, contentArea, createButtonShown))} :
           /\ allItems' = new.allItems
           /\ contentArea' = new.contentArea
           /\ createButtonShown' = new.createButtonShown
    /\ inflight' = RemoveAt(inflight, i)
    /\ UNCHANGED <<searchInput, categoryFilter, form, popoverOpen, formHeading,
                   confirmListeners, cancelListeners, modalShown, alertDialog,
                   toast>>

ListResponseFrom(lists) ==
    \E i \in 1..Len(inflight), outcome \in Outcomes, data \in lists :
        ListResponseWith(i, outcome, data)

ListResponse == ListResponseFrom(ItemLists)

\* showToast's setTimeout callback, 3 seconds later
ToastTimeout ==
    /\ alertDialog = ""
    /\ UNCHANGED publicVars
    /\ toast.show
    /\ toast' = [toast EXCEPT !.show = FALSE]
    /\ UNCHANGED <<allItems, searchInput, categoryFilter, contentArea,
                   createButtonShown, form, popoverOpen, formHeading, inflight,
                   confirmListeners, cancelListeners, modalShown, alertDialog>>

SaveAlerts == {"An error occurred while saving", "Failed to save: "}

\* the user dismisses the alert() dialog: the handler that raised it goes
\* on; after saveItem's alert that is the rest of the submit listener
DismissAlert ==
    /\ alertDialog # ""
    /\ UNCHANGED publicVars
    /\ alertDialog' = ""
    /\ IF alertDialog \in SaveAlerts
       THEN /\ form' = formReset(form)
            /\ formHeading' = AddMenuItemHeading
            /\ popoverOpen' = FALSE
       ELSE UNCHANGED <<form, formHeading, popoverOpen>>
    /\ UNCHANGED <<allItems, searchInput, categoryFilter, contentArea,
                   createButtonShown, inflight, confirmListeners, cancelListeners,
                   modalShown, toast>>

Next ==
    \/ TypeSearch
    \/ ChangeCategory
    \/ ClickCreate
    \/ EditItem
    \/ Submit
    \/ CancelForm
    \/ DeleteItem
    \/ ClickConfirm
    \/ ClickCancel
    \/ SaveResponse
    \/ DeleteResponse
    \/ ListResponse
    \/ ToastTimeout
    \/ DismissAlert

Spec == Init /\ [][Next]_vars

(***************************************************************************)
(* The filter on its own: the page loads, the list arrives, and the user   *)
(* only searches and picks categories                                      *)
(***************************************************************************)
FilterTypeSearch == TypeSearchFrom(FilterSearchTerms)
FilterChangeCategory == ChangeCategoryFrom(FilterCategoryChoices)
FilterListResponse == ListResponseFrom(FilterItemLists)

NextFilter ==
    \/ FilterTypeSearch
    \/ FilterChangeCategory
    \/ FilterListResponse

SpecFilter == Init /\ [][NextFilter]_vars

(***************************************************************************)
(* The cards on their own: the page loads a list of items whose names      *)
(* carry weights, and the user only searches and picks categories          *)
(***************************************************************************)
RenderListResponse == ListResponseFrom(RenderItemLists)

NextRender ==
    \/ TypeSearch
    \/ ChangeCategory
    \/ RenderListResponse

SpecRender == Init /\ [][NextRender]_vars


(***************************************************************************)
(* saveItem on its own: the form popover is open on a form whose id field  *)
(* is hidden, a text input, or missing, and the user only submits          *)
(***************************************************************************)
IdValues == {<<>>, <<"0">>, <<"7">>, <<" ">>}

SaveForms ==
    {[id |-> Field("input", type, v, FALSE),
      ITEM |-> Field("input", "text", <<"P", "i", "e">>, FALSE)] :
        type \in {"hidden", "text"}, v \in IdValues}
    \cup {[ITEM |-> Field("input", "text", <<"P", "i", "e">>, FALSE)]}

InitSave ==
    /\ allItems = <<>>
    /\ searchInput = <<>>
    /\ categoryFilter = ""
    /\ contentArea = Content("", <<>>)
    /\ createButtonShown = TRUE
    /\ form \in SaveForms
    /\ popoverOpen = TRUE
    /\ formHeading = AddMenuItemHeading
    /\ inflight = <<listRequest>>
    /\ confirmListeners = <<>>
    /\ cancelListeners = <<>>
    /\ modalShown = FALSE
    /\ alertDialog = ""
    /\ toast = [text |-> "", show |-> FALSE]
    /\ NoListings

NextSave ==
    \/ ClickCreate
    \/ Submit
    \/ SaveResponse
    \/ ListResponse
    \/ ToastTimeout
    \/ DismissAlert

SpecSave == InitSave /\ [][NextSave]_vars

(***************************************************************************)
(* getFormData on its own: the form popover is open on a form with a       *)
(* hidden id and one field of any type, holding any value                  *)
(***************************************************************************)
FieldValues == {<<>>, <<" ">>, <<"4", "2">>, <<" ", "7">>}

DateValues == {<<>>, <<"2", "0", "2", "4", "-", "0", "1", "-", "0", "2">>}

TypedFields ==
    {Field("input", type, v, FALSE) :
        type \in {"text", "number", "range", "hidden"}, v \in FieldValues}
    \cup {Field("input", "date", v, FALSE) : v \in DateValues}
    \cup {Field("input", "checkbox", <<"o", "n">>, c) : c \in BOOLEAN}
    \cup {Field("select", "select-one", v, FALSE) : v \in FieldValues}

TypedForms ==
    {[id |-> Field("input", "hidden", v, FALSE), FIELD |-> el] :
        v \in {<<>>, <<"7">>}, el \in TypedFields}

InitForm ==
    /\ allItems = <<>>
    /\ searchInput = <<>>
    /\ categoryFilter = ""
    /\ contentArea = Content("", <<>>)
    /\ createButtonShown = TRUE
    /\ form \in TypedForms
    /\ popoverOpen = TRUE
    /\ formHeading = AddMenuItemHeading
    /\ inflight = <<listRequest>>
    /\ confirmListeners = <<>>
    /\ cancelListeners = <<>>
    /\ modalShown = FALSE
    /\ alertDialog = ""
    /\ toast = [text |-> "", show |-> FALSE]
    /\ NoListings

SpecForm == InitForm /\ [][NextSave]_vars

(***************************************************************************)
(* Public view: the data it lists                                          *)
(***************************************************************************)
\* a MenuItem as the public view reads it
MenuItem(name, category, pro, fbr, carb, sgr, cal) ==
    [ITEM |-> name, CATEGORY |-> category,
     PRO |-> pro, FBR |-> fbr, CARB |-> carb, SGR |-> sgr, CAL |-> cal]

Salad == <<"S", "A", "L", "A", "D">>
Snack == <<"S", "N", "A", "C", "K", "S", "I", "D", "E">>
Combo == <<"C", "O", "M", "B", "O", "M", "E", "A", "L">>

SideSalad == <<"S", "i", "d", "e", " ", "S", "a", "l", "a", "d">>

\* what a nutrition field may hold: absent, null, or a string
NutritionValues ==
    {Undefined, Null} \cup
    {Str(v) : v \in {<<"4">>, <<"5">>, <<"1", "0">>, <<"1", "1">>, <<"1", "9">>, <<"2", "0">>, <<"2", "1">>, <<"4", "0", "0">>, <<"4", "0", "1">>,
                     <<"a", "b", "c">>, <<" ", "2", "5", "g">>, <<"-", "5">>, <<"1", "9", ".", "9">>, <<"0", "x", "1", "F">>, <<"+", "7">>, <<>>}}

\* items that differ in one nutrition field
NutritionItems ==
    {MenuItem(SideSalad, Salad, v, Null, Null, Null, Null) : v \in NutritionValues}
    \cup {MenuItem(SideSalad, Salad, Null, v, Null, Null, Null) : v \in NutritionValues}
    \cup {MenuItem(SideSalad, Salad, Str(<<"3", "0">>), Str(<<"9">>), v, Str(<<"5", "0">>), Str(<<"9", "0", "0">>)) :
            v \in NutritionValues}
    \cup {MenuItem(SideSalad, Salad, Str(<<"3", "0">>), Str(<<"9">>), Str(<<"5", "0">>), v, Str(<<"9", "0", "0">>)) :
            v \in NutritionValues}
    \cup {MenuItem(SideSalad, Salad, Str(<<"3", "0">>), Str(<<"9">>), Str(<<"5", "0">>), Str(<<"5", "0">>), v) :
            v \in NutritionValues}

\* items that differ in the weight their name carries
PublicWeightNames ==
    {<<"B", "i", "g", " ", "M", "a", "c", " ", "7", ".", "6", " ", "o", "z", " ", "(", "2", "1", "5", " ", "g", ")">>, <<"K", "e", "t", "c", "h", "u", "p", " ", "(", "1", "0", " ", "g", ")">>, <<"F", "r", "i", "e", "s", " ", "1", "5", "4", " ", "g">>, <<"C", "o", "l", "a", " ", "(", "2", "1", " ", "o", "z", ")">>,
     <<"T", "e", "a", " ", "1", "6", " ", "o", "z", " ">>, <<"P", "i", "e", " ", "2", ".", "5", " ", "O", "Z">>}

WeightItems == {MenuItem(name, Snack, Null, Null, Null, Null, Null) : name \in PublicWeightNames}

ComboItem == MenuItem(<<"M", "e", "a", "l">>, Combo, Str(<<"2", "0">>), Str(<<"5">>), Str(<<"2", "0">>), Str(<<"1", "0">>), Str(<<"4", "0", "0">>))

\* the arrays the bootstrap hands to createListings
MenuItemLists ==
    {<<item>> : item \in NutritionItems \cup WeightItems}
    \cup {<<>>,
          <<MenuItem(SideSalad, Salad, Str(<<"1", "9">>), Null, Null, Null, Null),
            ComboItem,
            MenuItem(SideSalad, Salad, Str(<<"2", "0">>), Null, Null, Null, Null)>>}

\* the activeFilter arguments displayCategoryItems is called with
ActiveFilters ==
    {Null, Str(<<>>), Str(<<"h", "i", "g", "h", "-", "p", "r", "o", "t", "e", "i", "n">>), Str(<<"g", "u", "t", "-", "f", "r", "i", "e", "n", "d", "l", "y">>), Str(<<"l", "o", "w", "-", "c", "a", "r", "b">>),
     Str(<<"l", "o", "w", "-", "s", "u", "g", "a", "r">>), Str(<<"c", "a", "l", "o", "r", "i", "e", "-", "c", "o", "n", "s", "c", "i", "o", "u", "s">>), Str(<<"v", "e", "g", "a", "n">>)}

(***************************************************************************)
(* Public view: numbers                                                    *)
(***************************************************************************)
HexDigitValue ==
    [c \in {"a", "b", "c", "d", "e", "f", "A", "B", "C", "D", "E", "F"} |->
        CASE c \in {"a", "A"} -> 10 [] c \in {"b", "B"} -> 11 [] c \in {"c", "C"} -> 12
          [] c \in {"d", "D"} -> 13 [] c \in {"e", "E"} -> 14 [] OTHER -> 15]

\* the value of character c as a digit of the radix, -1 when it is none
DigitOf(c, radix) ==
    IF c \in Digit THEN DigitValue[c]
    ELSE IF radix = 16 /\ c \in DOMAIN HexDigitValue THEN HexDigitValue[c]
    ELSE -1

NaN == [nan |-> TRUE, n |-> 0]
Num(n) == [nan |-> FALSE, n |-> n]

\* the longest run of digits from pos on, read in the radix
RECURSIVE ReadDigits(_, _, _, _, _)
ReadDigits(s, pos, radix, acc, any) ==
    IF pos <= Len(s) /\ DigitOf(s[pos], radix) >= 0
    THEN With(<<pos + 1, acc * radix + DigitOf(s[pos], radix)>>,
              LAMBDA next : ReadDigits(s, next[1], radix, next[2], TRUE))
    ELSE IF any THEN Num(acc) ELSE NaN

\* s without its leading white space
StripLeft(s) == SubSeq(s, Run(WhiteSpace, s, 1) + 1, Len(s))

\* parseInt(value) without a radix: the value as a string, leading white
\* space skipped, an optional sign, an optional 0x, then digits up to the
\* first character that is none; undefined and null read as "undefined" and
\* "null", which hold no digit
parseInt(value) ==
    IF value.t # "string" THEN NaN
    ELSE With(StripLeft(value.s), LAMBDA text :
         With(IF text # <<>> /\ text[1] \in {"+", "-"} THEN 2 ELSE 1, LAMBDA from :
         With(IF Len(text) > from /\ text[from] = "0" /\ text[from + 1] \in {"x", "X"}
              THEN ReadDigits(text, from + 2, 16, 0, FALSE)
              ELSE ReadDigits(text, from, 10, 0, FALSE), LAMBDA r :
             IF ~r.nan /\ text[1] = "-" THEN Num(0 - r.n) ELSE r)))

\* number || 0
orZero(r) == IF r.nan \/ r.n = 0 THEN 0 ELSE r.n

\* `${n}` of an integer
RECURSIVE NatToString(_)
NatToString(n) ==
    IF n < 10 THEN <<CHOOSE c \in Digit : DigitValue[c] = n>>
    ELSE With(n \div 10, LAMBDA tens : NatToString(tens))
         \o <<CHOOSE c \in Digit : DigitValue[c] = n % 10>>

numberToString(n) == IF n < 0 THEN <<"-">> \o NatToString(0 - n) ELSE NatToString(n)

(***************************************************************************)
(* getNutritionalHighlight; a highlight is the text of its span, <<>> when *)
(* there is none                                                           *)
(***************************************************************************)
\* mutant: the protein highlight starts one gram early
highProteinFrom19(protein) ==
    IF protein >= 19 THEN numberToString(protein) \o <<"g", " ", "p", "r", "o", "t", "e", "i", "n">> ELSE <<>>

\* case 'high-protein'
highProtein(protein) ==
    IF protein >= 20 THEN numberToString(protein) \o <<"g", " ", "p", "r", "o", "t", "e", "i", "n">> ELSE <<>>

\* case 'gut-friendly'
gutFriendly(fiber) ==
    IF fiber >= 5 THEN numberToString(fiber) \o <<"g", " ", "f", "i", "b", "e", "r">> ELSE <<>>

\* case 'low-carb'
lowCarb(carbs) ==
    IF carbs <= 20 THEN numberToString(carbs) \o <<"g", " ", "c", "a", "r", "b", "s">> ELSE <<>>

\* case 'low-sugar'
lowSugar(sugar) ==
    IF sugar <= 10 THEN numberToString(sugar) \o <<"g", " ", "s", "u", "g", "a", "r">> ELSE <<>>

\* case 'calorie-conscious'
calorieConscious(calories) ==
    IF calories <= 400 THEN numberToString(calories) \o <<" ", "c", "a", "l">> ELSE <<>>

getNutritionalHighlight(item, activeFilter) ==
    IF ~Truthy(activeFilter) THEN <<>>
    ELSE CASE activeFilter.s = <<"h", "i", "g", "h", "-", "p", "r", "o", "t", "e", "i", "n">> -> highProtein(orZero(parseInt(item.PRO)))
           [] activeFilter.s = <<"g", "u", "t", "-", "f", "r", "i", "e", "n", "d", "l", "y">> -> gutFriendly(orZero(parseInt(item.FBR)))
           [] activeFilter.s = <<"l", "o", "w", "-", "c", "a", "r", "b">> -> lowCarb(orZero(parseInt(item.CARB)))
           [] activeFilter.s = <<"l", "o", "w", "-", "s", "u", "g", "a", "r">> -> lowSugar(orZero(parseInt(item.SGR)))
           [] activeFilter.s = <<"c", "a", "l", "o", "r", "i", "e", "-", "c", "o", "n", "s", "c", "i", "o", "u", "s">> ->
                  calorieConscious(orZero(parseInt(item.CAL)))
           [] OTHER -> <<>>

(***************************************************************************)
(* formatCategoryName                                                      *)
(***************************************************************************)
\* categoryMap, as <<key, label>> pairs (the label of MCCAFE in plain letters)
categoryMap ==
    {<<<<"B", "U", "R", "G", "E", "R", "S", "A", "N", "D", "W", "I", "C", "H">>,
       <<"B", "u", "r", "g", "e", "r", "s", " ", "&", " ", "S", "a", "n", "d", "w", "i", "c", "h", "e", "s">>>>,
     <<<<"C", "H", "I", "C", "K", "E", "N", "F", "I", "S", "H">>,
       <<"C", "h", "i", "c", "k", "e", "n", " ", "&", " ", "F", "i", "s", "h">>>>,
     <<<<"B", "R", "E", "A", "K", "F", "A", "S", "T">>,
       <<"B", "r", "e", "a", "k", "f", "a", "s", "t">>>>,
     <<<<"S", "A", "L", "A", "D">>,
       <<"S", "a", "l", "a", "d", "s">>>>,
     <<<<"S", "N", "A", "C", "K", "S", "I", "D", "E">>,
       <<"S", "n", "a", "c", "k", "s", " ", "&", " ", "S", "i", "d", "e", "s">>>>,
     <<<<"B", "E", "V", "E", "R", "A", "G", "E">>,
       <<"B", "e", "v", "e", "r", "a", "g", "e", "s">>>>,
     <<<<"M", "C", "C", "A", "F", "E">>,
       <<"M", "c", "C", "a", "f", "e">>>>,
     <<<<"D", "E", "S", "S", "E", "R", "T", "S", "H", "A", "K", "E">>,
       <<"D", "e", "s", "s", "e", "r", "t", "s", " ", "&", " ", "S", "h", "a", "k", "e", "s">>>>,
     <<<<"C", "O", "N", "D", "I", "M", "E", "N", "T">>,
       <<"C", "o", "n", "d", "i", "m", "e", "n", "t", "s">>>>,
     <<<<"A", "L", "L", "D", "A", "Y", "B", "R", "E", "A", "K", "F", "A", "S", "T">>,
       <<"A", "l", "l", " ", "D", "a", "y", " ", "B", "r", "e", "a", "k", "f", "a", "s", "t">>>>}

\* categoryName.replace(/([A-Z])/g, ' $1'): a space before every capital
RECURSIVE SpaceCapitals(_)
SpaceCapitals(s) ==
    IF s = <<>> THEN <<>>
    ELSE (IF Head(s) \in DOMAIN UpperToLower THEN <<" ", Head(s)>> ELSE <<Head(s)>>)
         \o With(Tail(s), LAMBDA rest : SpaceCapitals(rest))

formatCategoryName(categoryName) ==
    IF \E e \in categoryMap : e[1] = categoryName
    THEN (CHOOSE e \in categoryMap : e[1] = categoryName)[2]
    ELSE trim(SpaceCapitals(categoryName))

(***************************************************************************)
(* displayCategoryItems: the weight its listing shows                      *)
(***************************************************************************)
\* [\d.]+
DigitsDots == Re(Digit \cup {"."}, "+")

\* /\s*([\d.]+)\s*oz\s*\((\d+)\s*g\)\s*$/
OzGramsAtEnd ==
    <<S("*"), DigitsDots, S("*"), Ch("o"), Ch("z"), S("*"), Ch("("), D("+"), S("*"),
      Ch("g"), Ch(")"), S("*"), End>>

\* /\s*\((\d+)\s*g\)\s*$/
GramsInParens == <<S("*"), Ch("("), D("+"), S("*"), Ch("g"), Ch(")"), S("*"), End>>

\* /\s+(\d+)\s*g\s*$/
GramsAtEnd == <<S("+"), D("+"), S("*"), Ch("g"), S("*"), End>>

\* /\s*\(([\d.]+)\s*oz\)\s*$/
OuncesInParens ==
    <<S("*"), Ch("("), DigitsDots, S("*"), Ch("o"), Ch("z"), Ch(")"), S("*"), End>>

\* /\s+([\d.]+)\s*oz\s*$/
OuncesAtEnd == <<S("+"), DigitsDots, S("*"), Ch("o"), Ch("z"), S("*"), End>>

Weighed(cleanedName, grams, ounces) ==
    [cleanedName |-> cleanedName, grams |-> grams, ounces |-> ounces]

\* the branch taken when the name does not end in "N oz (M g)"
gramsOrOunces(itemText) ==
    With(match(itemText, GramsInParens), LAMBDA m2 :
        IF m2.found
        THEN Weighed(replaceFirst(itemText, m2), Group(itemText, m2, 3, 3), <<>>)
        ELSE With(match(itemText, GramsAtEnd), LAMBDA m3 :
            IF m3.found
            THEN Weighed(replaceFirst(itemText, m3), Group(itemText, m3, 2, 2), <<>>)
            ELSE With(match(itemText, OuncesInParens), LAMBDA m4 :
                IF m4.found
                THEN Weighed(replaceFirst(itemText, m4), <<>>, Group(itemText, m4, 3, 3))
                ELSE With(match(itemText, OuncesAtEnd), LAMBDA m5 :
                    IF m5.found
                    THEN Weighed(replaceFirst(itemText, m5), <<>>,
                                 Group(itemText, m5, 2, 2))
                    ELSE Weighed(itemText, <<>>, <<>>)))))

\* cleanedName, grams and ounces of an item's name
extractWeight(itemText) ==
    With(match(itemText, OzGramsAtEnd), LAMBDA m1 :
        IF m1.found
        THEN Weighed(replaceFirst(itemText, m1), Group(itemText, m1, 8, 8),
                     Group(itemText, m1, 2, 2))
        ELSE gramsOrOunces(itemText))

\* the names of the menu's items
MenuItemNames ==
    UNION {{list[i].ITEM : i \in 1..Len(list)} : list \in MenuItemLists}

\* extractWeight(itemText) of every name (evaluated once)
ItemWeights == [itemText \in MenuItemNames |-> extractWeight(itemText)]

\* `${categoryName}-${index}`
PopoverId(categoryName, index) == [category |-> categoryName, index |-> index]

\* the .listing of one item: what its button shows
listing(categoryName, index, item, activeFilter) ==
    With(ItemWeights[item.ITEM], LAMBDA w :
        [popoverId |-> PopoverId(categoryName, index),
         itemName |-> w.cleanedName,
         itemGrams |-> IF w.grams # <<>> THEN w.grams \o <<"g">> ELSE <<>>,
         itemOunces |-> IF w.ounces # <<>> /\ w.grams = <<>>
                        THEN w.ounces \o <<"o", "z">> ELSE <<>>,
         nutritionalHighlight |-> getNutritionalHighlight(item, activeFilter)])

\* the section displayCategoryItems appends to the container
section(categoryName, items, activeFilter) ==
    [class |-> toLowerCase(categoryName),
     header |-> formatCategoryName(categoryName),
     count |-> Len(items),
     listings |-> [i \in 1..Len(items) |->
                      listing(categoryName, i - 1, items[i], activeFilter)]]

\* window.menuItemsData[popoverId] = item, for every item of the category
RECURSIVE storeItems(_, _, _, _)
storeItems(data, categoryName, items, index) ==
    IF index >= Len(items) THEN data
    ELSE With(<<SelectSeq(data, LAMBDA e : e.popoverId # PopoverId(categoryName, index))
                  \o <<[popoverId |-> PopoverId(categoryName, index),
                        item |-> items[index + 1]]>>,
                index + 1>>,
              LAMBDA next : storeItems(next[1], categoryName, items, next[2]))

(***************************************************************************)
(* createListings                                                          *)
(***************************************************************************)
\* categories[category].push(item), the key created at its first item
pushItem(categories, item) ==
    IF \E k \in 1..Len(categories) : categories[k].category = item.CATEGORY
    THEN [k \in 1..Len(categories) |->
            IF categories[k].category = item.CATEGORY
            THEN [categories[k] EXCEPT !.items = Append(@, item)]
            ELSE categories[k]]
    ELSE Append(categories, [category |-> item.CATEGORY, items |-> <<item>>])

\* the menuItems.forEach that groups the items by category
RECURSIVE groupByCategory(_, _)
groupByCategory(categories, menuItems) ==
    IF menuItems = <<>> THEN categories
    ELSE With(<<pushItem(categories, Head(menuItems)), Tail(menuItems)>>,
              LAMBDA next : groupByCategory(next[1], next[2]))

Button(text, category, active) == [text |-> text, category |-> category, active |-> active]

\* createFilterButtons: "Show All", active, then a button for each category
createFilterButtons(categories) ==
    <<Button(<<"S", "h", "o", "w", " ", "A", "l", "l">>, <<>>, TRUE)>>
    \o [k \in 1..Len(categories) |->
          Button(formatCategoryName(categories[k].category), categories[k].category, FALSE)]

\* the sections of all categories, displayed without an active filter
RECURSIVE displayAll(_, _)
displayAll(container, categories) ==
    IF categories = <<>> THEN container
    ELSE With(<<Append(container,
                       section(Head(categories).category, Head(categories).items, Null)),
                Tail(categories)>>,
              LAMBDA next : displayAll(next[1], next[2]))

RECURSIVE storeAll(_, _)
storeAll(data, categories) ==
    IF categories = <<>> THEN data
    ELSE With(<<storeItems(data, Head(categories).category, Head(categories).items, 0),
                Tail(categories)>>,
              LAMBDA next : storeAll(next[1], next[2]))

(***************************************************************************)
(* Public view: actions                                                    *)
(***************************************************************************)
\* sections #results-container may hold
MaxSections == 3

InitPublic ==
    /\ allItems = <<>>
    /\ searchInput = <<>>
    /\ categoryFilter = ""
    /\ contentArea = Content("", <<>>)
    /\ createButtonShown = TRUE
    /\ form = ManagerForm
    /\ popoverOpen = FALSE
    /\ formHeading = AddMenuItemHeading
    /\ inflight = <<>>
    /\ confirmListeners = <<>>
    /\ cancelListeners = <<>>
    /\ modalShown = FALSE
    /\ alertDialog = ""
    /\ toast = [text |-> "", show |-> FALSE]
    /\ NoListings

\* createListings(menuItems), which the bootstrap calls once when the page
\* has fetched the menu
CreateListings ==
    \E menuItems \in MenuItemLists :
        /\ filterButtons = <<>>
        /\ \E categories \in {groupByCategory(<<>>, menuItems)} :
              /\ menuCategories' = categories
              /\ filterButtons' = createFilterButtons(categories)
              /\ resultsContainer' = displayAll(resultsContainer, categories)
              /\ menuItemsData' = storeAll(menuItemsData, categories)
        /\ UNCHANGED <<invokedFilter, managerVars>>

\* displayCategoryItems(categoryName, items, container, activeFilter) as the
\* filter module calls it: with a category of window.menuCategories, on the
\* results container
DisplayCategoryItemsWith(k, activeFilter) ==
    /\ Len(resultsContainer) < MaxSections
    /\ resultsContainer' =
          Append(resultsContainer,
                 section(menuCategories[k].category, menuCategories[k].items,
                         activeFilter))
    /\ menuItemsData' =
          storeItems(menuItemsData, menuCategories[k].category,
                     menuCategories[k].items, 0)
    /\ UNCHANGED <<menuCategories, filterButtons, invokedFilter, managerVars>>

DisplayCategoryItems ==
    \E k \in 1..Len(menuCategories), activeFilter \in ActiveFilters :
        DisplayCategoryItemsWith(k, activeFilter)

\* mutant: the clicked button becomes active, the others stay as they were
setActiveKeepsOthers(buttons, b) ==
    [k \in 1..Len(buttons) |->
        [buttons[k] EXCEPT !.active = (buttons[k].active \/ k = b)]]

\* querySelectorAll('.filter-btn').forEach(btn => btn.classList.remove('active'))
\* and then classList.add('active') on button b
setActive(buttons, b) ==
    [k \in 1..Len(buttons) |-> [buttons[k] EXCEPT !.active = (k = b)]]

\* click on a category's filter button: filterByCategory(categoryKey, button)
FilterByCategory ==
    \E b \in 2..Len(filterButtons) :
        /\ filterButtons' = setActive(filterButtons, b)
        /\ invokedFilter' = [fn |-> "setCategoryFilter",
                             category |-> filterButtons[b].category]
        /\ UNCHANGED <<menuCategories, resultsContainer, menuItemsData, managerVars>>

\* click on "Show All": showAllCategoriesLocal()
ShowAllCategoriesLocal ==
    /\ filterButtons # <<>>
    /\ filterButtons' = setActive(filterButtons, 1)
    /\ invokedFilter' = [fn |-> "showAllCategories", category |-> <<>>]
    /\ UNCHANGED <<menuCategories, resultsContainer, menuItemsData, managerVars>>

NextPublic ==
    \/ CreateListings
    \/ DisplayCategoryItems
    \/ FilterByCategory
    \/ ShowAllCategoriesLocal

SpecPublic == InitPublic /\ [][NextPublic]_vars


(***************************************************************************)
(* Claims                                                                  *)
(***************************************************************************)
CountOf(q, P(_)) == Cardinality({i \in 1..Len(q) : P(q[i])})

IsSave(r) == r.kind = "save"
IsList(r) == r.method = "GET" /\ r.endpoint = DataPath
IsDelete(r) == r.method = "DELETE"

\* the id the submitted record carries: a non-empty string, else <<>>
CarriedId(f) ==
    LET data == getFormData(f)
    IN  IF "id" \in DOMAIN data /\ data["id"].t = "string" THEN data["id"].s ELSE <<>>

\* C1: saveItem routes by identifier: a record that carries an id is sent as
\* exactly one PUT to /data/{id}, a record whose id is absent, null or empty
\* as exactly one POST to /data; a submission issues one request and no other.
C1_SaveRoutesById ==
    [][/\ Submit => CountOf(inflight', IsSave) = CountOf(inflight, IsSave) + 1
       /\ CountOf(inflight', IsSave) > CountOf(inflight, IsSave) =>
            LET id == CarriedId(form)
                sent == inflight'[Len(inflight')]
            IN  /\ inflight' = Append(inflight, sent)
                /\ sent.kind = "save"
                /\ IF id # <<>>
                   THEN /\ sent.method = "PUT"
                        /\ sent.endpoint = <<"/", "d", "a", "t", "a", "/">> \o id
                   ELSE /\ sent.method = "POST"
                        /\ sent.endpoint = <<"/", "d", "a", "t", "a">>]_vars

\* C1 witness: an update to /data/7 and a create are both outstanding
C1_Witness ==
    /\ \E i \in 1..Len(inflight) :
          /\ inflight[i].method = "PUT"
          /\ inflight[i].endpoint = <<"/", "d", "a", "t", "a", "/", "7">>
    /\ \E i \in 1..Len(inflight) :
          /\ inflight[i].method = "POST"
          /\ inflight[i].endpoint = <<"/", "d", "a", "t", "a">>

ItemIds == {<<"1">>, <<"2">>, <<"3">>, <<"4">>}

\* DELETE requests outstanding for /data/{id}
DeletesFor(q, id) ==
    Cardinality({i \in 1..Len(q) :
        q[i].method = "DELETE" /\ q[i].endpoint = <<"/", "d", "a", "t", "a", "/">> \o id})

\* confirm handlers registered for id
HandlersFor(listeners, id) ==
    Cardinality({i \in 1..Len(listeners) : listeners[i].id = id})

\* C2: a DELETE request for an item is issued only by a click on the confirm
\* button, and only for an item deleteItem was invoked for before that click
\* (a confirm handler for an item is registered only by deleteItem on that
\* item's card); deleteItem itself and a click on cancel issue no DELETE.
C2_DeleteOnlyAfterConfirm ==
    [][/\ CountOf(inflight', IsDelete) > CountOf(inflight, IsDelete) => ClickConfirm
       /\ \A id \in ItemIds :
            /\ DeletesFor(inflight', id) > DeletesFor(inflight, id) =>
                   HandlersFor(confirmListeners, id) > 0
            /\ HandlersFor(confirmListeners', id) > HandlersFor(confirmListeners, id) =>
                   /\ DeleteItem
                   /\ \E i \in 1..Len(contentArea.items) : contentArea.items[i].item.id = id
       /\ (DeleteItem \/ ClickCancel) =>
              CountOf(inflight', IsDelete) = CountOf(inflight, IsDelete)]_vars

\* C2 witness: after a confirmed deletion of item 1 its DELETE is outstanding
\* and the modal is closed
C2_Witness ==
    /\ DeletesFor(inflight, <<"1">>) = 1
    /\ ~modalShown
    /\ confirmListeners = <<>>

NoDataMessage == "No data found in the database."

\* C3: whenever a list fetch completes successfully with an empty array, the
\* content area shows the 'No data found in the database.' message and
\* allItems is empty afterwards, whatever it held before.
C3_EmptyFetchEmptiesList ==
    [][(ListResponse /\ contentArea'.kind = NoDataMessage) => allItems' = <<>>]_vars

\* C4: allItems changes only when a list fetch completes, and then to a whole
\* fetched array; a settled create, update or delete leaves allItems alone,
\* issues exactly one GET /data when it succeeded and none when it failed
\* (a failure is the one that raises an alert).
C4_WholesaleRefetch ==
    [][/\ allItems' # allItems =>
            /\ \E i \in 1..Len(inflight) :
                   /\ IsList(inflight[i])
                   /\ inflight' = RemoveAt(inflight, i)
            /\ allItems' \in ItemLists
       /\ (SaveResponse \/ DeleteResponse) =>
            /\ allItems' = allItems
            /\ alertDialog' = "" =>
                   CountOf(inflight', IsList) = CountOf(inflight, IsList) + 1
            /\ alertDialog' # "" =>
                   CountOf(inflight', IsList) = CountOf(inflight, IsList)
       /\ CountOf(inflight', IsList) > CountOf(inflight, IsList) =>
            /\ SaveResponse \/ DeleteResponse
            /\ alertDialog' = ""]_vars

\* C4 witness: a deletion succeeded, its refetch is outstanding and allItems
\* still holds the list fetched before
C4_Witness ==
    /\ toast = [text |-> "Item deleted successfully", show |-> TRUE]
    /\ CountOf(inflight, IsList) = 1
    /\ allItems = <<McFries, Fries>>

\* C5: after any sequence of delete-icon, confirm and cancel clicks at most
\* one confirm handler and one cancel handler are registered, so one click
\* on confirm issues exactly one DELETE request.
C5_SinglePendingDeletion ==
    [][/\ Len(confirmListeners') <= 1
       /\ Len(cancelListeners') <= 1
       /\ ClickConfirm =>
              CountOf(inflight', IsDelete) = CountOf(inflight, IsDelete) + 1]_vars

\* the item's name contains term, letter case of the name ignored
NameContains(item, term) ==
    /\ item.ITEM.t = "string"
    /\ \E k \in 0..(Len(item.ITEM.s) - Len(term)) :
          \A j \in 1..Len(term) : LowerChar(item.ITEM.s[k + j]) = term[j]

\* C6: filterAndDisplayItems renders exactly the items of allItems, in
\* allItems order, whose name contains the trimmed lower-cased search term
\* (or the term is empty) and whose CATEGORY equals the selected category
\* (or none is selected); it shows the cards when there are any and the
\* no-match message otherwise.
C6_FilterShowsExactlyMatches ==
    LET term == trim(toLowerCase(searchInput))
        Passes(item) ==
            /\ term = <<>> \/ NameContains(item, term)
            /\ categoryFilter = "" \/ item.CATEGORY = categoryFilter
        expected == SelectSeq(allItems, Passes)
        shown == [i \in 1..Len(contentArea.items) |-> contentArea.items[i].item]
    IN  contentArea.kind \in {"cards", "No items match your search."} =>
            /\ shown = expected
            /\ contentArea.kind = "cards" <=> expected # <<>>

\* C6 witness: 'fries' typed, no category: the two fries items of the list
\* are shown, whatever their letter case and category, and no other
C6_Witness ==
    /\ searchInput = <<"f", "r", "i", "e", "s">>
    /\ categoryFilter = ""
    /\ allItems = <<BigMac, McFries, NoName, Fries>>
    /\ contentArea.kind = "cards"
    /\ Len(contentArea.items) = 2
    /\ contentArea.items[1].item = McFries
    /\ contentArea.items[2].item = Fries

\* only whitespace, or nothing at all
Blank(value) == \A i \in 1..Len(value) : value[i] \in {" ", "\t", "\n"}

\* C7: getFormData maps every field by its type: a blank text, number, range,
\* date or select field is sent as null, a non-blank number or range field as
\* its literal string, a checkbox as true when checked and false when not, and
\* a hidden input's value as it is.
C7_FieldsMappedByType ==
    [][CountOf(inflight', IsSave) > CountOf(inflight, IsSave) =>
        LET data == inflight'[Len(inflight')].body
        IN  /\ DOMAIN data = DOMAIN form
            /\ \A name \in DOMAIN form :
                  LET el == form[name]
                  IN  IF el.kind = "select"
                      THEN Blank(el.value) => data[name] = Null
                      ELSE IF el.type = "hidden"
                      THEN data[name] = [t |-> "string", s |-> el.value, b |-> FALSE]
                      ELSE IF el.type = "checkbox"
                      THEN data[name] = [t |-> "boolean", s |-> <<>>, b |-> el.checked]
                      ELSE IF Blank(el.value)
                      THEN el.type \in {"text", "number", "range", "date"}
                              => data[name] = Null
                      ELSE el.type \in {"number", "range"}
                              => data[name] = [t |-> "string", s |-> el.value, b |-> FALSE]]_vars

\* C7 witness: a record went out with the hidden id "7" as it is and a blank
\* text, number, range or date field as null
C7_Witness ==
    \E i \in 1..Len(inflight) :
        /\ IsSave(inflight[i])
        /\ inflight[i].body = [id |-> Str(<<"7">>), FIELD |-> Null]
        /\ form["FIELD"].type \in {"text", "number", "range", "date"}

\* C8: the manager weight extraction is idempotent: for every card shown,
\* running the cascade again on the cleaned name it produced returns that
\* name unchanged and finds no further quantity.
C8_ExtractionIdempotent ==
    \A i \in 1..Len(contentArea.items) :
        LET card == contentArea.items[i]
        IN  parseWeight(card.itemName, card.item.CATEGORY)
                = [itemName |-> card.itemName, weightInfo |-> <<>>]

\* the categories whose cards show ounces
BeverageLike == {"BEVERAGE", "CONDIMENT", "DESSERTSHAKE"}

\* C9: the card of an item named "<stem> <N> oz (<M> g)" shows "<N> oz" when
\* its category is BEVERAGE, CONDIMENT or DESSERTSHAKE and "<M> g" for every
\* other category (a missing one included), and shows the name without the
\* weight.
C9_OuncesForBeveragesGramsForFood ==
    \A i \in 1..Len(contentArea.items) :
        LET card == contentArea.items[i]
        IN  \A stem \in Bases, ounces \in OunceValues, grams \in GramValues :
                card.item.ITEM = Str(OzGramName(stem, ounces, grams)) =>
                    /\ card.itemName = stem
                    /\ card.weightInfo =
                          IF card.item.CATEGORY \in BeverageLike
                          THEN ounces \o <<" ", "o", "z">>
                          ELSE grams \o <<" ", "g">>

\* C9 witness: "8.9 oz (251 g)" is shown as a beverage with "8.9 oz" and as
\* a snack with "251 g"
C9_Witness ==
    /\ Len(contentArea.items) = 2
    /\ contentArea.items[1].item.CATEGORY = "BEVERAGE"
    /\ contentArea.items[1].item.ITEM = Str(<<"8", ".", "9", " ", "o", "z", " ", "(", "2", "5", "1", " ", "g", ")">>)
    /\ contentArea.items[1].weightInfo = <<"8", ".", "9", " ", "o", "z">>
    /\ contentArea.items[2].item.CATEGORY = "SNACKSIDE"
    /\ contentArea.items[2].item.ITEM = Str(<<"8", ".", "9", " ", "o", "z", " ", "(", "2", "5", "1", " ", "g", ")">>)
    /\ contentArea.items[2].weightInfo = <<"2", "5", "1", " ", "g">>

\* the number a nutrition field is read as
Metric(value) == orZero(parseInt(value))

\* the metric tied to the active filter crosses its threshold
CrossesThreshold(item, activeFilter) ==
    \/ activeFilter = Str(<<"h", "i", "g", "h", "-", "p", "r", "o", "t", "e", "i", "n">>) /\ Metric(item.PRO) >= 20
    \/ activeFilter = Str(<<"g", "u", "t", "-", "f", "r", "i", "e", "n", "d", "l", "y">>) /\ Metric(item.FBR) >= 5
    \/ activeFilter = Str(<<"l", "o", "w", "-", "c", "a", "r", "b">>) /\ Metric(item.CARB) <= 20
    \/ activeFilter = Str(<<"l", "o", "w", "-", "s", "u", "g", "a", "r">>) /\ Metric(item.SGR) <= 10
    \/ activeFilter = Str(<<"c", "a", "l", "o", "r", "i", "e", "-", "c", "o", "n", "s", "c", "i", "o", "u", "s">>) /\ Metric(item.CAL) <= 400

\* C10: a listing carries a nutritional highlight only when the metric tied to
\* the active filter crosses its threshold (protein >= 20, fiber >= 5,
\* carbs <= 20, sugar <= 10, calories <= 400); with no active filter, as when
\* createListings displays the menu, or with an unknown filter key, no listing
\* carries one.
C10_HighlightOnlyPastThreshold ==
    [][/\ (filterButtons = <<>> /\ filterButtons' # <<>>) =>
            \A j \in 1..Len(resultsContainer') :
                \A i \in 1..Len(resultsContainer'[j].listings) :
                    resultsContainer'[j].listings[i].nutritionalHighlight = <<>>
       /\ \A k \in 1..Len(menuCategories), activeFilter \in ActiveFilters :
            DisplayCategoryItemsWith(k, activeFilter) =>
                LET shown == resultsContainer'[Len(resultsContainer')].listings
                    items == menuCategories[k].items
                IN  \A i \in 1..Len(items) :
                        shown[i].nutritionalHighlight # <<>>
                            => CrossesThreshold(items[i], activeFilter)]_vars

\* C10 witness: under one filter a section shows the item with 19 g of
\* protein without a highlight and the item with 20 g with "20g protein"
C10_Witness ==
    \E j \in 1..Len(resultsContainer) :
        LET shown == resultsContainer[j].listings
        IN  /\ Len(shown) = 2
            /\ shown[1].nutritionalHighlight = <<>>
            /\ shown[2].nutritionalHighlight = <<"2", "0", "g", " ", "p", "r", "o", "t", "e", "i", "n">>

\* the buttons that carry the class 'active'
ActiveButtons == {k \in 1..Len(filterButtons) : filterButtons[k].active}

\* C11: once createListings has built the filter buttons, exactly one of them
\* is active, and it is the button of the filter invoked last: "Show All" at
\* first and after showAllCategories, the clicked category's button after
\* setCategoryFilter.
C11_OneActiveFilterButton ==
    filterButtons # <<>> =>
        /\ Cardinality(ActiveButtons) = 1
        /\ \A k \in ActiveButtons :
              IF invokedFilter.fn = "setCategoryFilter"
              THEN k > 1 /\ filterButtons[k].category = invokedFilter.category
              ELSE k = 1 /\ filterButtons[k].text = <<"S", "h", "o", "w", " ", "A", "l", "l">>

\* C11 witness: of three buttons the last one, a category's, is the active
\* one after a click on it
C11_Witness ==
    /\ Len(filterButtons) = 3
    /\ ActiveButtons = {3}
    /\ invokedFilter.fn = "setCategoryFilter"

\* C12: when a save, delete or list request is rejected at transport level a
\* generic message is shown (an alert for a save or a delete, an inline
\* message for the list), allItems keeps its value and no request is issued;
\* requests are issued only by a submit, by a click on confirm, or as the
\* refetch after a save or delete that succeeded.
C12_TransportFailureNotRetried ==
    [][/\ \A i \in 1..Len(inflight) :
            /\ SaveResponseWith(i, "reject") =>
                  /\ alertDialog' = "An error occurred while saving"
                  /\ allItems' = allItems
                  /\ inflight' = RemoveAt(inflight, i)
            /\ DeleteResponseWith(i, "reject") =>
                  /\ alertDialog' = "An error occurred while deleting"
                  /\ allItems' = allItems
                  /\ inflight' = RemoveAt(inflight, i)
            /\ ListResponseWith(i, "reject", <<>>) =>
                  /\ contentArea' = [kind |-> "Error loading menu items.", items |-> <<>>]
                  /\ allItems' = allItems
                  /\ inflight' = RemoveAt(inflight, i)
       /\ inflight' # inflight =>
            \/ Submit
            \/ ClickConfirm
            \/ \E i \in 1..Len(inflight) :
                  \/ inflight' = RemoveAt(inflight, i)
                  \/ /\ ~IsList(inflight[i])
                     /\ inflight' = Append(RemoveAt(inflight, i),
                                           [kind |-> "list", method |-> "GET",
                                            endpoint |-> <<"/", "d", "a", "t", "a">>,
                                            body |-> [none |-> TRUE]])
                     /\ alertDialog' = ""
                     /\ toast'.show]_vars

\* C12 witness: a refetch was rejected: the inline error is shown, the list
\* fetched before is still in allItems and no request is outstanding
C12_Witness ==
    /\ contentArea.kind = "Error loading menu items."
    /\ allItems # <<>>
    /\ inflight = <<>>
    /\ alertDialog = ""

\* the outcomes of a fetch that failed: the request was rejected, or the
\* response is not a success
FailedOutcomes == {"reject", "notok", "notokBadBody"}

\* C13: whenever the initial list fetch fails (the request is rejected or the
\* response is not a success) the create button is hidden and an inline
\* message is shown in the content area.  Refetches are issued only together
\* with a toast, so while the toast never had a text the list request that
\* settles is the one issued when the page loaded.
C13_InitialFetchFailureHidesCreate ==
    [][\A i \in 1..Len(inflight), outcome \in FailedOutcomes :
          toast.text = "" /\ ListResponseWith(i, outcome, <<>>) =>
              /\ ~createButtonShown'
              /\ contentArea'.kind \in {"Could not connect to the database.",
                                        "Error loading menu items."}
              /\ contentArea'.items = <<>>]_vars

SaveSettled ==
    \/ \E i \in 1..Len(inflight) : SaveResponseWith(i, "ok")
    \/ alertDialog \in SaveAlerts /\ DismissAlert

\* C15: once saveItem settles, whether the save succeeded, failed with a
\* non-success status or failed in transport, the form popover is hidden and
\* every field of the form, the hidden id included, is empty again.
C15_SubmitDiscardsForm ==
    [][SaveSettled =>
          /\ ~popoverOpen'
          /\ \A name \in DOMAIN form' :
                form'[name].value = <<>> /\ ~form'[name].checked]_vars

=============================================================================
